---------------------------- MODULE Spec2Model ----------------------------
(***************************************************************************)
(* TH Flood SOS dashboard (main.py and pages/Summary Dashboard.py).        *)
(*                                                                         *)
(* Three specifications share the variables below:                         *)
(*   SpecNorm    the two parse_location functions applied to one location  *)
(*               value drawn from a bounded set of shapes;                 *)
(*   SpecFeed    load_data under st.cache_data(ttl=600) for both pages,    *)
(*               with concurrent viewer sessions, a clock and the feed's   *)
(*               possible answers, followed by the rest of the page run;   *)
(*   SpecFilter  the sidebar filters and the count aggregates of both      *)
(*               pages applied to one table drawn from a bounded set.      *)
(***************************************************************************)
EXTENDS Integers, Sequences, FiniteSets, TLC

VARIABLES
    \* --- SpecNorm
    loc_obj,      \* the value of the record's "location" attribute
    mainOut,      \* result of main.py parse_location, or Pending
    sumOut,       \* result of Summary Dashboard parse_location, or Pending
    \* --- SpecFeed
    now,          \* the clock, in seconds
    cache,        \* per page: the st.cache_data entry of its load_data
    lock,         \* per page: the session computing the value, or NoOne
    http,         \* per session: the HTTP GET in flight, if any
    fetchLog,     \* the fetches issued so far: <<[page, at, done, outcome]>>
    lastRun,      \* what the script run that ended last did
    \* --- SpecFilter
    df,           \* the table returned by load_data (sequence of rows)
    mainPage,     \* result of main.py's filter + aggregates, or Pending
    sumPage       \* result of Summary Dashboard's filter + aggregates, or Pending

normVars   == <<loc_obj, mainOut, sumOut>>
feedVars   == <<now, cache, lock, http, fetchLog, lastRun>>
filterVars == <<df, mainPage, sumPage>>
vars       == <<loc_obj, mainOut, sumOut, now, cache, lock, http, fetchLog, lastRun,
                df, mainPage, sumPage>>

(***************************************************************************)
(* Python values.  A value read from a mapping is None (key missing or     *)
(* JSON null), the empty string (the falsy non-None value) or a non-empty  *)
(* string.  Each key's non-empty value is a token of its own, so a result  *)
(* tells which key it was read from.                                       *)
(***************************************************************************)
None  == "<None>"
Empty == ""

Truthy(v) == v # None /\ v # Empty

\* Python's  a or b : a when a is truthy, otherwise b (whatever b is).
Or(a, b) == IF Truthy(a) THEN a ELSE b

Keys ==
    {"status", "status_text", "sos_status",
     "type_name", "help_type", "disease", "category",
     "province", "province_name", "changwat",
     "district", "amphoe",
     "subdistrict", "sub_district", "tambon",
     "address", "description"}

\* The non-empty value carried by key k in the inputs.
Tok(k) == "v:" \o k

\* The keys read for one output field (or one fallback chain) form a group.
Chains ==
    {{"status", "status_text", "sos_status"},
     {"type_name", "help_type", "disease", "category"},
     {"province", "province_name", "changwat"},
     {"district", "amphoe"},
     {"subdistrict", "sub_district", "tambon"},
     {"address"},
     {"description"}}

\* The keys set (non-None) in one properties mapping come from at most this
\* many groups; within a group every combination of None, empty and
\* non-empty values occurs.
MaxSetChains == 1

\* props.get(k)
get(props, k) == props[k]

(***************************************************************************)
(* Location values.  loc_obj has a Python type py; a str is either text    *)
(* json.loads rejects or the encoding of the JSON value val; a dict is the *)
(* JSON object val itself.  A JSON value has a type ty and, when it is an  *)
(* object, the entries geometry and properties.                            *)
(***************************************************************************)
NoKeys == [k \in Keys |-> None]

\* loc["geometry"]["coordinates"]
CoordShapes ==
    {[ty |-> "missing", items |-> <<>>],
     [ty |-> "null",    items |-> <<>>],
     [ty |-> "number",  items |-> <<>>],
     [ty |-> "list",    items |-> <<>>],
     [ty |-> "list",    items |-> <<"lon">>],
     [ty |-> "list",    items |-> <<"lon", "lat">>],
     [ty |-> "list",    items |-> <<"lon", "lat", "alt">>]}

\* loc["geometry"]
GeomShapes ==
    {[ty |-> t, coordinates |-> [ty |-> "missing", items |-> <<>>]] :
         t \in {"missing", "null", "scalar"}}
    \cup {[ty |-> "object", coordinates |-> c] : c \in CoordShapes}

NoGeom  == [ty |-> "missing", coordinates |-> [ty |-> "missing", items |-> <<>>]]
NoProps == [ty |-> "missing", map |-> NoKeys]

JsonNonObject(t) == [ty |-> t, geometry |-> NoGeom, properties |-> NoProps]
JsonObject(g, p) == [ty |-> "object", geometry |-> g, properties |-> p]

\* loc["properties"] as a mapping with the keys of S set: those of E to the
\* empty string, the others to their token.
PropsMap(S, E) ==
    [ty |-> "object",
     map |-> [k \in Keys |-> IF k \notin S THEN None
                             ELSE IF k \in E THEN Empty ELSE Tok(k)]]

\* loc["properties"] when it is no mapping: missing, null, a falsy
\* non-mapping ([] "" 0 false) or a truthy non-mapping ("x" [1] 5 true).
PropsNonMap(t) == [ty |-> t, map |-> NoKeys]

PyStr(v)     == [py |-> "str",  text |-> "json",     val |-> v]
PyStrBad     == [py |-> "str",  text |-> "not json", val |-> JsonNonObject("null")]
PyDict(v)    == [py |-> "dict", text |-> "",         val |-> v]
PyOther(t)   == [py |-> t,      text |-> "",         val |-> JsonNonObject("null")]

\* A JSON object as the feed carries it: inline, or encoded as a string.
Encoded(enc, v) == IF enc = "str" THEN PyStr(v) ELSE PyDict(v)

\* json.loads(s): the decoded value, or a raised exception for text that
\* is not JSON.
json_loads(s) ==
    IF s.text = "json" THEN [raised |-> FALSE, val |-> s.val]
                       ELSE [raised |-> TRUE,  val |-> JsonNonObject("null")]

(***************************************************************************)
(* main.py parse_location.                                                 *)
(***************************************************************************)
OutFields ==
    {"longitude", "latitude", "status", "status_text", "type_name", "province",
     "district", "subdistrict", "address", "description", "sos_status"}

out_init == [f \in OutFields |-> None]

Returned(out) == [state |-> "returned", out |-> out]
Raised        == [state |-> "raised",   out |-> out_init]
NotRun        == [state |-> "pending",  out |-> out_init]

\* loc.get("geometry", {}).get("coordinates", [None, None]); coords[0], coords[1].
\* Raises when geometry is present and not a mapping, when coordinates is
\* present and not subscriptable, or when it has fewer than two items.
coords_of(loc) ==
    LET g == loc.geometry
        c == g.coordinates
    IN  IF g.ty = "missing" THEN [raised |-> FALSE, lon |-> None, lat |-> None]
        ELSE IF g.ty # "object" THEN [raised |-> TRUE, lon |-> None, lat |-> None]
        ELSE IF c.ty = "missing" THEN [raised |-> FALSE, lon |-> None, lat |-> None]
        ELSE IF c.ty # "list" \/ Len(c.items) < 2
             THEN [raised |-> TRUE, lon |-> None, lat |-> None]
        ELSE [raised |-> FALSE, lon |-> c.items[1], lat |-> c.items[2]]

\* loc.get("properties", {}) or {} ; a truthy non-mapping has no .get
props_of(loc) ==
    LET p == loc.properties
    IN  IF p.ty \in {"missing", "null", "falsy"} THEN [raised |-> FALSE, map |-> NoKeys]
        ELSE IF p.ty = "truthy" THEN [raised |-> TRUE, map |-> NoKeys]
        ELSE [raised |-> FALSE, map |-> p.map]

\* A plausible slip: sos_status never backfills status.
fallback_mapping_nobackfill(out) ==
    IF out.status_text = None /\ out.status # None
    THEN [out EXCEPT !.status_text = out.status]
    ELSE out

\* "fallback mapping": sos_status backfills status, status backfills status_text.
fallback_mapping(out) ==
    LET o1 == IF out.status = None /\ out.sos_status # None
              THEN [out EXCEPT !.status = out.sos_status]
              ELSE out
    IN  IF o1.status_text = None /\ o1.status # None
        THEN [o1 EXCEPT !.status_text = o1.status]
        ELSE o1

\* The part of parse_location after loc is bound.
parse_loc(loc) ==
    IF loc.ty # "object" THEN Raised            \* loc.get on a non-mapping
    ELSE
    LET c == coords_of(loc)
        p == props_of(loc)
        props == p.map
    IN  IF c.raised \/ p.raised THEN Raised
        ELSE Returned(fallback_mapping(
               [longitude   |-> c.lon,
                latitude    |-> c.lat,
                status      |-> get(props, "status"),
                status_text |-> Or(get(props, "status_text"), get(props, "status")),
                type_name   |-> Or(get(props, "type_name"),
                                Or(get(props, "help_type"),
                                Or(get(props, "disease"),
                                   get(props, "category")))),
                province    |-> Or(get(props, "province"),
                                Or(get(props, "province_name"),
                                   get(props, "changwat"))),
                district    |-> Or(get(props, "district"), get(props, "amphoe")),
                subdistrict |-> Or(get(props, "subdistrict"),
                                Or(get(props, "sub_district"),
                                   get(props, "tambon"))),
                address     |-> get(props, "address"),
                description |-> get(props, "description"),
                sos_status  |-> get(props, "sos_status")]))

parse_location(x) ==
    IF x.py = "str"
    THEN LET j == json_loads(x)
         IN  IF j.raised THEN Returned(out_init) ELSE parse_loc(j.val)
    ELSE IF x.py = "dict" THEN parse_loc(x.val)
    ELSE Returned(out_init)

(***************************************************************************)
(* pages/Summary Dashboard.py parse_location: five fields, no geometry.    *)
(***************************************************************************)
SumFields == {"province", "district", "subdistrict", "status_text", "type_name"}

Summary_parse_loc(loc) ==
    IF loc.ty # "object" THEN Raised
    ELSE
    LET p == props_of(loc)
        props == p.map
    IN  IF p.raised THEN Raised
        ELSE Returned(
               [f \in OutFields |->
                  CASE f = "province"    ->
                         Or(get(props, "province"),
                            Or(get(props, "province_name"), get(props, "changwat")))
                    [] f = "district"    ->
                         Or(get(props, "district"), get(props, "amphoe"))
                    [] f = "subdistrict" ->
                         Or(get(props, "subdistrict"),
                            Or(get(props, "sub_district"), get(props, "tambon")))
                    [] f = "status_text" ->
                         Or(get(props, "status_text"),
                            Or(get(props, "status"), get(props, "sos_status")))
                    [] f = "type_name"   ->
                         Or(get(props, "type_name"),
                            Or(get(props, "help_type"),
                               Or(get(props, "disease"), get(props, "category"))))
                    [] OTHER             -> None])

Summary_parse_location(x) ==
    IF x.py = "str"
    THEN LET j == json_loads(x)
         IN  IF j.raised THEN Returned(out_init) ELSE Summary_parse_loc(j.val)
    ELSE IF x.py = "dict" THEN Summary_parse_loc(x.val)
    ELSE Returned(out_init)

(***************************************************************************)
(* SpecNorm: one location value, normalised by each page.                  *)
(***************************************************************************)
NormInit ==
    /\ \/ loc_obj \in {PyOther("NoneType"), PyOther("int"), PyStrBad}
       \/ \E t \in {"null", "number", "string", "list"} :
              loc_obj = PyStr(JsonNonObject(t))
       \/ \E enc \in {"str", "dict"}, g \in GeomShapes :
              \E t \in {"missing", "null", "falsy", "truthy"} :
                 loc_obj = Encoded(enc, JsonObject(g, PropsNonMap(t)))
       \/ \E enc \in {"str", "dict"}, g \in GeomShapes :
              \E G \in SUBSET Chains :
                 /\ Cardinality(G) <= MaxSetChains
                 /\ \E S \in SUBSET (UNION G) : \E E \in SUBSET S :
                       loc_obj = Encoded(enc, JsonObject(g, PropsMap(S, E)))
    /\ mainOut = NotRun
    /\ sumOut = NotRun

\* df["location"].apply(parse_location) of main.py on this value
ApplyMain ==
    /\ mainOut.state = "pending"
    /\ mainOut' = parse_location(loc_obj)
    /\ UNCHANGED <<loc_obj, sumOut>>

\* df["location"].apply(parse_location) of the Summary Dashboard on this value
ApplySummary ==
    /\ mainOut.state # "pending"
    /\ sumOut.state = "pending"
    /\ sumOut' = Summary_parse_location(loc_obj)
    /\ UNCHANGED <<loc_obj, mainOut>>

(***************************************************************************)
(* Properties of the normalisers (checked under SpecNorm).                 *)
(***************************************************************************)
\* The JSON value loc_obj stands for, when it stands for an object.
IsObject ==
    \/ loc_obj.py = "dict"
    \/ loc_obj.py = "str" /\ loc_obj.text = "json" /\ loc_obj.val.ty = "object"

\* The properties mapping the input carries (no key set when it carries none).
InProps ==
    IF IsObject /\ loc_obj.val.properties.ty = "object"
    THEN loc_obj.val.properties.map
    ELSE NoKeys

\* The first non-empty value along a priority chain, absent when there is none.
FirstNonEmpty(props, chain) ==
    LET hits == {i \in DOMAIN chain : props[chain[i]] # None /\ props[chain[i]] # Empty}
    IN  IF hits = {} THEN None
        ELSE props[chain[CHOOSE i \in hits : \A j \in hits : i <= j]]

AliasChain ==
    [type_name   |-> <<"type_name", "help_type", "disease", "category">>,
     province    |-> <<"province", "province_name", "changwat">>,
     district    |-> <<"district", "amphoe">>,
     subdistrict |-> <<"subdistrict", "sub_district", "tambon">>]

\* C1: parse_location of main.py never raises, whatever the input is, and
\* for None, a non-string non-mapping value and a string that is not JSON
\* every one of the eleven fields of its result is absent.
C1_Total ==
    /\ mainOut.state # "raised"
    /\ (mainOut.state = "returned" /\ ~IsObject
          /\ (loc_obj.py # "str" \/ loc_obj.text = "not json"))
       => \A f \in OutFields : mainOut.out[f] = None

\* C2: on both pages each aliased field is the first non-empty value of its
\* priority chain, and is absent when no key of the chain is non-empty.
C2_AliasChains ==
    \A f \in DOMAIN AliasChain :
       /\ mainOut.state = "returned" /\ IsObject
            => mainOut.out[f] = FirstNonEmpty(InProps, AliasChain[f])
       /\ sumOut.state = "returned" /\ IsObject
            => sumOut.out[f] = FirstNonEmpty(InProps, AliasChain[f])

\* The two fallback steps of main.py, stated on the input: status is the
\* properties' status unless that is absent, then sos_status; status_text is
\* status_text if non-empty, else the properties' status, and when that
\* leaves it absent, the resulting status.
C3_Steps ==
    LET res == IF InProps["status_text"] # None /\ InProps["status_text"] # Empty
               THEN InProps["status_text"] ELSE InProps["status"]
    IN  /\ mainOut.out["status"] =
              (IF InProps["status"] = None THEN InProps["sos_status"]
                                          ELSE InProps["status"])
        /\ mainOut.out["status_text"] =
              (IF res = None THEN mainOut.out["status"] ELSE res)

C3_NonEmptyGivesLabel ==
    (\E k \in {"status_text", "status", "sos_status"} :
         InProps[k] # None /\ InProps[k] # Empty)
    => mainOut.out["status_text"] # None

\* C3 (as amended): the fallback steps hold; when status is absent (missing
\* or null), status_text is absent or empty and sos_status = X is present,
\* the result has status = X and status_text = X; and when any of the three
\* keys is non-empty the resulting status_text is not absent.
C3_FallbackChain ==
    (mainOut.state = "returned" /\ IsObject) =>
       /\ C3_Steps
       /\ (/\ InProps["status"] = None
           /\ InProps["status_text"] \in {None, Empty}
           /\ InProps["sos_status"] # None)
          => /\ mainOut.out["status"] = InProps["sos_status"]
             /\ mainOut.out["status_text"] = InProps["sos_status"]
       /\ C3_NonEmptyGivesLabel

\* C3 (as claimed): the same, for every mapping in which neither status nor
\* status_text has a usable (non-empty) value.
C3_FallbackChainAsClaimed ==
    (mainOut.state = "returned" /\ IsObject) =>
       /\ C3_Steps
       /\ (/\ InProps["status"] \in {None, Empty}
           /\ InProps["status_text"] \in {None, Empty}
           /\ InProps["sos_status"] # None)
          => /\ mainOut.out["status"] = InProps["sos_status"]
             /\ mainOut.out["status_text"] = InProps["sos_status"]
       /\ C3_NonEmptyGivesLabel

\* A run on which both backfills acted: only sos_status carries a value
\* (status_text is present but empty) and it reached status and status_text.
C3_Witness ==
    /\ mainOut.state = "returned"
    /\ IsObject
    /\ InProps["status"] = None
    /\ InProps["status_text"] = Empty
    /\ InProps["sos_status"] = Tok("sos_status")
    /\ mainOut.out["status"] = Tok("sos_status")
    /\ mainOut.out["status_text"] = Tok("sos_status")

\* C10: for every location value both pages return the same province,
\* district, subdistrict, type_name and status_text.
C10_PagesAgree ==
    (mainOut.state = "returned" /\ sumOut.state = "returned") =>
       \A f \in SumFields : mainOut.out[f] = sumOut.out[f]

(***************************************************************************)
(* The page scripts after load_data: sidebar filters and aggregates.       *)
(*                                                                         *)
(* A table (DataFrame) is its rows in feed order; hasCols tells whether    *)
(* the columns the pages read (the parsed location columns and updated_at) *)
(* exist.  A row keeps the columns the pages read; None is a missing       *)
(* value (None / NaN / NaT).  The row order of a counts table is not       *)
(* modelled: a counts table is the set of its rows.                        *)
(***************************************************************************)
MaxRows == 2

RowTypes ==
    [province    : {None, "P1", "P2"},
     district    : {None, "D1"},
     subdistrict : {None, "S1"},
     status_text : {None, "T1"},
     type_name   : {None, "Y1"},
     updated_at  : {None, "2024-01-01"}]

NoSel == [province |-> {}, district |-> {}, subdistrict |-> {},
          status |-> {}, type |-> {}]

EmptyFrame == [hasCols |-> FALSE, rows |-> <<>>]      \* pd.DataFrame()

empty(frame) == frame.rows = <<>>                      \* df.empty

\* sorted(df[col].dropna().unique().tolist()) if col in df.columns else []
options(frame, col) ==
    IF frame.hasCols
    THEN {frame.rows[i][col] : i \in DOMAIN frame.rows} \ {None}
    ELSE {}

\* The selections the sidebar of main.py can return for this table.
MainSelections(frame) ==
    [province    : SUBSET options(frame, "province"),
     district    : SUBSET options(frame, "district"),
     subdistrict : SUBSET options(frame, "subdistrict"),
     status      : SUBSET options(frame, "status_text"),
     type        : SUBSET options(frame, "type_name")]

\* The Summary Dashboard has no district and no sub-district widget.
SummarySelections(frame) ==
    [province    : SUBSET options(frame, "province"),
     district    : {{}},
     subdistrict : {{}},
     status      : SUBSET options(frame, "status_text"),
     type        : SUBSET options(frame, "type_name")]

\* filtered[filtered[col].isin(sel)]
isin(rows, col, sel) == SelectSeq(rows, LAMBDA r : r[col] \in sel)

\* Section 3 of main.py.  With a status selection, line 172 rebinds
\* filtered to the boolean Series and line 173 then indexes that Series by
\* the column name: KeyError.
main_apply_filters(frame, sel) ==
    LET f1 == IF sel.province # {} THEN isin(frame.rows, "province", sel.province)
                                   ELSE frame.rows
        f2 == IF sel.district # {} THEN isin(f1, "district", sel.district) ELSE f1
        f3 == IF sel.subdistrict # {} THEN isin(f2, "subdistrict", sel.subdistrict)
                                       ELSE f2
        f5 == IF sel.type # {} /\ frame.hasCols THEN isin(f3, "type_name", sel.type)
                                                 ELSE f3
    IN  IF sel.status # {} /\ frame.hasCols
        THEN [raised |-> TRUE,  rows |-> <<>>]
        ELSE [raised |-> FALSE, rows |-> f5]

\* filtered.groupby(["province", "district"]).size(): groupby drops the
\* rows whose key holds a missing value (dropna=True).
dist_counts(rows) ==
    LET kept == {i \in DOMAIN rows :
                    rows[i].province # None /\ rows[i].district # None}
    IN  {[province |-> rows[i].province, district |-> rows[i].district,
          n |-> Cardinality({j \in kept : /\ rows[j].province = rows[i].province
                                          /\ rows[j].district = rows[i].district})] :
         i \in kept}

\* series.fillna("Unknown").value_counts()
status_counts(rows) ==
    LET label(i) == IF rows[i].status_text = None THEN "Unknown"
                                                  ELSE rows[i].status_text
    IN  {[status_text |-> label(i),
          n |-> Cardinality({j \in DOMAIN rows : label(j) = label(i)})] :
         i \in DOMAIN rows}

PageNotRun == [state |-> "pending", sel |-> NoSel, steps |-> {}, filtered |-> <<>>,
               counted |-> <<>>, dist_counts |-> {}, status_counts |-> {}]

\* main.py from "if df.empty" to the end, given the table and the sidebar
\* selections.
main_script(frame, sel) ==
    IF empty(frame)
    THEN [PageNotRun EXCEPT !.state = "stopped"]                  \* st.stop()
    ELSE
    LET f == main_apply_filters(frame, sel)
    IN  IF f.raised
        THEN [PageNotRun EXCEPT !.state = "raised", !.sel = sel,
                                !.steps = {"options", "filter"}]
        ELSE [state    |-> "done",
              sel      |-> sel,
              steps    |-> {"options", "filter", "key_figures", "type_counts", "map"}
                           \cup (IF frame.hasCols
                                 THEN {"dist_counts", "status_counts"} ELSE {}),
              filtered |-> f.rows,
              counted  |-> f.rows,
              dist_counts   |-> IF frame.hasCols THEN dist_counts(f.rows) ELSE {},
              status_counts |-> IF frame.hasCols THEN status_counts(f.rows) ELSE {}]

\* The filters of the Summary Dashboard.
Summary_apply_filters(frame, sel) ==
    LET f1 == IF sel.province # {} THEN isin(frame.rows, "province", sel.province)
                                   ELSE frame.rows
        f2 == IF sel.status # {} /\ frame.hasCols
              THEN isin(f1, "status_text", sel.status) ELSE f1
    IN  IF sel.type # {} /\ frame.hasCols THEN isin(f2, "type_name", sel.type)
                                           ELSE f2

\* pages/Summary Dashboard.py after load_data returned: there is no
\* df.empty check; without an updated_at column the script stops after the
\* filters; the status counts are taken over tmp, the filtered rows that
\* have an updated_at.
Summary_script(frame, sel) ==
    LET f   == Summary_apply_filters(frame, sel)
        tmp == SelectSeq(f, LAMBDA r : r.updated_at # None)
    IN  IF ~frame.hasCols
        THEN [PageNotRun EXCEPT !.state = "stopped", !.sel = sel,
                                !.steps = {"options", "filter"}, !.filtered = f]
        ELSE [state    |-> "done",
              sel      |-> sel,
              steps    |-> {"options", "filter", "daily", "status_counts"},
              filtered |-> f,
              counted  |-> tmp,
              dist_counts   |-> {},
              status_counts |-> status_counts(tmp)]

(***************************************************************************)
(* SpecFilter: one table, then one page's script on it.                    *)
(***************************************************************************)
FilterInit ==
    /\ \E n \in 0..MaxRows : \E rows \in [1..n -> RowTypes] :
           df = [hasCols |-> TRUE, rows |-> rows]
    /\ mainPage = PageNotRun
    /\ sumPage = PageNotRun

\* A run of main.py on the table, with some sidebar selections.
RunMainScript ==
    /\ mainPage.state = "pending"
    /\ sumPage.state = "pending"
    /\ \E sel \in MainSelections(df) : mainPage' = main_script(df, sel)
    /\ UNCHANGED <<df, sumPage>>

\* A run of the Summary Dashboard on the table, with some selections.
RunSummaryScript ==
    /\ sumPage.state = "pending"
    /\ mainPage.state = "pending"
    /\ \E sel \in SummarySelections(df) : sumPage' = Summary_script(df, sel)
    /\ UNCHANGED <<df, mainPage>>

\* The rows of the table that pass every non-empty selection, in order.
Accepted(rows, sel) ==
    SelectSeq(rows, LAMBDA r :
        /\ sel.province # {}    => r.province \in sel.province
        /\ sel.district # {}    => r.district \in sel.district
        /\ sel.subdistrict # {} => r.subdistrict \in sel.subdistrict
        /\ sel.status # {}      => r.status_text \in sel.status
        /\ sel.type # {}        => r.type_name \in sel.type)

\* C8: on both pages, for every table and every combination of selections,
\* the filtered table is exactly the rows whose value in each column with a
\* non-empty selection is selected, in their order; with no selection it is
\* the table itself.
C8_FilterIsConjunction ==
    /\ mainPage.state # "pending" /\ ~empty(df)
         => /\ mainPage.state = "done"
            /\ mainPage.filtered = Accepted(df.rows, mainPage.sel)
    /\ sumPage.state # "pending"
         => /\ sumPage.state = "done"
            /\ sumPage.filtered = Accepted(df.rows, sumPage.sel)

RECURSIVE SumN(_)
SumN(counts) ==
    IF counts = {} THEN 0
    ELSE LET c == CHOOSE x \in counts : TRUE IN c.n + SumN(counts \ {c})

\* C9: the per-(province, district) counts sum to the number of rows of the
\* filtered table, and so do the per-status counts, on every page that
\* computes them.
C9_CountsSumToRows ==
    /\ mainPage.state = "done"
         => /\ SumN(mainPage.dist_counts) = Len(mainPage.filtered)
            /\ SumN(mainPage.status_counts) = Len(mainPage.filtered)
    /\ sumPage.state = "done"
         => SumN(sumPage.status_counts) = Len(sumPage.filtered)

(***************************************************************************)
(* The feed and load_data.                                                 *)
(*                                                                         *)
(* An answer to the GET is a connection error or timeout (net = "error"),  *)
(* or a response with a 2xx or non-2xx status and a body.  A body is text  *)
(* that is not JSON, or a JSON value val, bare or held under the key       *)
(* "data" of a mapping (wrapped).  val is null, a scalar, a list of        *)
(* records, a mapping of scalars or a mapping of column lists.             *)
(***************************************************************************)
TTL == 600

RecKinds == {"empty", "rows", "rows_badloc"}

BodyVals ==
    {[ty |-> t, recs |-> ""] : t \in {"null", "scalar", "objScalars", "objColumns"}}
    \cup {[ty |-> "list", recs |-> r] : r \in RecKinds}

Bodies ==
    {[json |-> FALSE, wrapped |-> FALSE, val |-> [ty |-> "null", recs |-> ""]]}
    \cup [json : {TRUE}, wrapped : BOOLEAN, val : BodyVals]

\* A non-2xx response carries an error page or an error mapping.
Answers ==
    {[net |-> "error", body |-> [json |-> FALSE, wrapped |-> FALSE,
                                 val |-> [ty |-> "null", recs |-> ""]]]}
    \cup [net : {"ok"}, body : Bodies]
    \cup {[net |-> "non2xx", body |-> b] :
             b \in {c \in Bodies : ~c.json \/ (~c.wrapped /\ c.val.ty = "objScalars")}}

\* The record lists the feed sends: none, two well-formed records (one
\* location inline, one string-encoded, one without updated_at), or one
\* record whose location is the JSON text of a number.
Point == [ty |-> "object",
          coordinates |-> [ty |-> "list", items |-> <<"lon", "lat">>]]

Records(kind) ==
    CASE kind = "rows" ->
           <<[location |-> PyDict(JsonObject(Point,
                              PropsMap({"province", "district", "status"}, {}))),
              updated_at |-> "2024-01-01"],
             [location |-> PyStr(JsonObject(NoGeom,
                              PropsMap({"changwat", "sos_status"}, {}))),
              updated_at |-> None]>>
      [] kind = "rows_badloc" ->
           <<[location |-> PyStr(JsonNonObject("number")), updated_at |-> None]>>
      [] OTHER -> <<>>

\* pd.DataFrame(records) for a list of records, then
\* df["location"].apply(parse) and pd.concat: an exception of parse
\* propagates out of load_data.
build_frame(records, page) ==
    LET parse(x) == IF page = "main" THEN parse_location(x)
                                     ELSE Summary_parse_location(x)
    IN
    IF \E i \in DOMAIN records : parse(records[i].location).state = "raised"
    THEN [raised |-> TRUE, frame |-> EmptyFrame]
    ELSE [raised |-> FALSE,
          frame  |-> [hasCols |-> records # <<>>,
                      rows |-> [i \in DOMAIN records |->
                                 LET o == parse(records[i].location).out
                                 IN  [province    |-> o["province"],
                                      district    |-> o["district"],
                                      subdistrict |-> o["subdistrict"],
                                      status_text |-> o["status_text"],
                                      type_name   |-> o["type_name"],
                                      updated_at  |-> records[i].updated_at]]]]

\* What a call of the function body gives: a returned table (with the
\* st.error it displayed, if any) or an exception; feed is how the fetch
\* and shape check ended, recs the record list they yielded.
Value(frame, msg, feed, recs) ==
    [ret |-> "value", frame |-> frame, msg |-> msg, feed |-> feed, recs |-> recs]
Raise(feed, recs) ==
    [ret |-> "raise", frame |-> EmptyFrame, msg |-> "none", feed |-> feed,
     recs |-> recs]

\* isinstance(raw, dict), "data" in raw, isinstance(raw, list)
is_dict(body)  == body.wrapped \/ body.val.ty \in {"objScalars", "objColumns"}
has_data(body) == body.wrapped
is_list(body)  == ~body.wrapped /\ body.val.ty = "list"

\* main.py load_data (the body, run on a cache miss) given the answer:
\* requests.get, raise_for_status and resp.json() under one try/except.
load_data(a) ==
    IF a.net # "ok" \/ ~a.body.json
    THEN Value(EmptyFrame, "transport", "transport_error", "")
    ELSE IF (is_dict(a.body) /\ has_data(a.body) /\ a.body.val.ty = "list")
            \/ is_list(a.body)
    THEN LET b == build_frame(Records(a.body.val.recs), "main")
         IN  IF b.raised THEN Raise("records", a.body.val.recs)
                         ELSE Value(b.frame, "none", "records", a.body.val.recs)
    ELSE Value(EmptyFrame, "shape", "shape_error", "")

\* pages/Summary Dashboard.py load_data given the answer: no try, no
\* raise_for_status, no shape check; the value under "data", or the body
\* itself, goes to pd.DataFrame whatever it is.
Summary_load_data(a) ==
    LET records == a.body.val  \* raw["data"] when raw is a dict with "data", else raw
    IN
    IF a.net = "error" \/ ~a.body.json
    THEN Raise("exception", "")
    ELSE CASE records.ty = "list" ->
                LET b == build_frame(Records(a.body.val.recs), "summary")
                IN  IF b.raised THEN Raise("records", a.body.val.recs)
                                ELSE Value(b.frame, "none", "records", a.body.val.recs)
           [] records.ty = "null" ->                       \* pd.DataFrame(None)
                Value(EmptyFrame, "none", "records", "")
           [] records.ty = "objColumns" ->                 \* rows from the mapping
                Value([hasCols |-> FALSE,
                       rows |-> <<[province |-> None, district |-> None,
                                   subdistrict |-> None, status_text |-> None,
                                   type_name |-> None, updated_at |-> None]>>],
                      "none", "records", "")
           [] OTHER ->                                     \* ValueError
                Raise("exception", "")

(***************************************************************************)
(* SpecFeed: viewer sessions running the two pages against the feed.       *)
(*                                                                         *)
(* st.cache_data(ttl=600) keeps one entry per decorated function: each     *)
(* page's load_data has its own.  A miss computes the value under the      *)
(* entry's lock and stores what the function returns, with the elements it *)
(* displayed (replayed on a hit); an exception stores nothing.  A session  *)
(* that finds the lock taken waits, which the model shows as the session   *)
(* starting its call when the lock is free.                                *)
(***************************************************************************)
MaxSessions == 2
MaxFetches  == 2

Sessions == 1..MaxSessions
Pages    == {"main", "summary"}

\* The instants the clock visits.
Instants == {0, TTL - 1, TTL, 2 * TTL}

NoEntry == [has |-> FALSE, frame |-> EmptyFrame, msg |-> "none", storedAt |-> 0,
            src |-> 0]
NoHttp  == [busy |-> FALSE, page |-> "main", fetch |-> 0, prev |-> 0, age |-> 0]
NoRun   == [state |-> "none", page |-> "main", prev |-> 0, age |-> 0, fetch |-> 0,
            src |-> 0, error |-> FALSE, script |-> "none", steps |-> {}]

FeedInit ==
    /\ now = 0
    /\ cache = [p \in Pages |-> NoEntry]
    /\ lock = [p \in Pages |-> 0]
    /\ http = [s \in Sessions |-> NoHttp]
    /\ fetchLog = <<>>
    /\ lastRun = NoRun

\* The entry is present and younger than the ttl.
Fresh(p) == cache[p].has /\ now - cache[p].storedAt < TTL

\* The last fetch of page p that has completed (0: none), and the time
\* since it completed.
LastDone(p) ==
    LET done == {i \in DOMAIN fetchLog : fetchLog[i].page = p /\ fetchLog[i].done}
    IN  IF done = {} THEN 0 ELSE CHOOSE i \in done : \A j \in done : j <= i

Age(p) == IF LastDone(p) = 0 THEN 0 ELSE now - fetchLog[LastDone(p)].doneAt

\* The rest of the page script once load_data has returned r: run is the
\* record of the script run so far, src the fetch the table came from.
Finish(run, r, src) ==
    LET scripts == IF run.page = "main"
                   THEN {main_script(r.frame, sel) : sel \in MainSelections(r.frame)}
                   ELSE {Summary_script(r.frame, sel) :
                           sel \in SummarySelections(r.frame)}
    IN  {[run EXCEPT !.state = "ended", !.src = src,
                     !.error = (r.msg # "none"),
                     !.script = sc.state, !.steps = sc.steps] : sc \in scripts}

\* Time passes.
Tick ==
    /\ \E t \in Instants : t > now /\ now' = t
    /\ UNCHANGED <<cache, lock, http, fetchLog, lastRun>>

\* Session s runs page p and load_data is a cache hit: the stored table is
\* returned, the stored st.error (if any) is replayed, the script goes on.
RunCached(s, p) ==
    /\ ~http[s].busy
    /\ lock[p] = 0
    /\ Fresh(p)
    /\ lastRun' \in Finish([NoRun EXCEPT !.page = p, !.prev = LastDone(p),
                                          !.age = Age(p)],
                            cache[p], cache[p].src)
    /\ UNCHANGED <<now, cache, lock, http, fetchLog>>

\* Session s runs page p, load_data is a cache miss: it takes the entry's
\* lock and issues the GET.
BeginFetch(s, p) ==
    /\ ~http[s].busy
    /\ lock[p] = 0
    /\ ~Fresh(p)
    /\ Len(fetchLog) < MaxFetches
    /\ lock' = [lock EXCEPT ![p] = s]
    /\ fetchLog' = Append(fetchLog,
           [page |-> p, at |-> now, done |-> FALSE, doneAt |-> 0,
            answer |-> CHOOSE a \in Answers : a.net = "error",
            feed |-> "", recs |-> "", rows |-> 0, stored |-> FALSE])
    /\ http' = [http EXCEPT ![s] = [busy |-> TRUE, page |-> p,
                                    fetch |-> Len(fetchLog) + 1,
                                    prev |-> LastDone(p), age |-> Age(p)]]
    /\ UNCHANGED <<now, cache, lastRun>>

\* The GET of session s ends with answer a: the function body finishes, the
\* value it returns is stored, the lock is released and the page script
\* goes on (or the run ends with the exception).
Respond(s, a) ==
    /\ http[s].busy
    /\ LET p == http[s].page
           k == http[s].fetch
           r == IF p = "main" THEN load_data(a) ELSE Summary_load_data(a)
           run == [NoRun EXCEPT !.page = p, !.prev = http[s].prev,
                                !.age = http[s].age, !.fetch = k]
       IN  /\ cache' = IF r.ret = "value"
                       THEN [cache EXCEPT ![p] =
                               [has |-> TRUE, frame |-> r.frame, msg |-> r.msg,
                                storedAt |-> now, src |-> k]]
                       ELSE cache
           /\ lock' = [lock EXCEPT ![p] = 0]
           /\ fetchLog' = [fetchLog EXCEPT ![k] =
                  [@ EXCEPT !.done = TRUE, !.doneAt = now, !.answer = a,
                            !.feed = r.feed, !.recs = r.recs,
                            !.rows = Len(r.frame.rows),
                            !.stored = (r.ret = "value")]]
           /\ IF r.ret = "value"
              THEN lastRun' \in Finish(run, r, k)
              ELSE lastRun' = [run EXCEPT !.state = "ended", !.src = k,
                                          !.script = "exception"]
    /\ http' = [http EXCEPT ![s] = NoHttp]
    /\ UNCHANGED now

FeedNext ==
    \/ Tick /\ UNCHANGED normVars /\ UNCHANGED filterVars
    \/ \E s \in Sessions, p \in Pages :
          RunCached(s, p) /\ UNCHANGED normVars /\ UNCHANGED filterVars
    \/ \E s \in Sessions, p \in Pages :
          BeginFetch(s, p) /\ UNCHANGED normVars /\ UNCHANGED filterVars
    \/ \E s \in Sessions, a \in Answers :
          Respond(s, a) /\ UNCHANGED normVars /\ UNCHANGED filterVars

(***************************************************************************)
(* Properties of the feed client, the cache and the page runs (SpecFeed).  *)
(***************************************************************************)
\* How an answer counts: a transport failure (no connection, timeout,
\* non-2xx status), a body that is not JSON, a decoded body of the right
\* shape (a mapping whose "data" is a list, or a list), or any other
\* decoded body.
AnswerClass(a) ==
    IF a.net # "ok" THEN "transport"
    ELSE IF ~a.body.json THEN "undecodable"
    ELSE IF a.body.val.ty = "list" THEN "good"
    ELSE "shape"

\* C4: on both pages a fetch yields the record list exactly when the body
\* is a mapping whose data entry is a list, or a list; any other decoded
\* body ends in the shape error and no row is built from it; a network
\* error, timeout or non-2xx status ends in the transport error, not in an
\* exception.
C4_ShapeValidation ==
    \A k \in DOMAIN fetchLog :
       LET e == fetchLog[k]
           c == AnswerClass(e.answer)
       IN  e.done =>
             /\ c = "good" => e.feed = "records" /\ e.recs = e.answer.body.val.recs
             /\ c = "shape" => e.feed = "shape_error" /\ e.rows = 0
             /\ c = "transport" => e.feed = "transport_error"

\* C5: a run whose call of load_data comes less than 600 s after the page's
\* last fetch gets the table that fetch stored and fetches nothing; a call
\* before any fetch, or 600 s or more after the last one, fetches once and
\* stores table and fetch time together.
C5_CacheFreshness ==
    /\ lastRun.state = "ended" =>
         /\ (lastRun.prev # 0 /\ lastRun.age < TTL)
               => /\ lastRun.fetch = 0
                  /\ lastRun.src = lastRun.prev
                  /\ fetchLog[lastRun.prev].stored
         /\ (lastRun.prev = 0 \/ lastRun.age >= TTL)
               => /\ lastRun.fetch # 0
                  /\ fetchLog[lastRun.fetch].stored
    /\ \A p \in Pages :
         cache[p].has => /\ fetchLog[cache[p].src].stored
                         /\ fetchLog[cache[p].src].page = p
                         /\ cache[p].storedAt = fetchLog[cache[p].src].doneAt

\* C6: never two GETs of the feed in flight at once, never two fetches
\* issued less than 600 s apart, and the tables in use at one time are the
\* same table.
C6_SingleFlight ==
    /\ Cardinality({s \in Sessions : http[s].busy}) <= 1
    /\ \A i, j \in DOMAIN fetchLog :
         i < j => fetchLog[j].at - fetchLog[i].at >= TTL
    /\ \A p, q \in Pages :
         Fresh(p) /\ Fresh(q) => cache[p].src = cache[q].src

\* C7: a run whose fetch ended in a transport or shape error shows the
\* error state and stops: it runs no later step and ends in no exception.
C7_UnavailableStops ==
    (/\ lastRun.state = "ended"
     /\ AnswerClass(fetchLog[lastRun.src].answer) \in {"transport", "shape"})
    => /\ lastRun.error
       /\ lastRun.script = "stopped"
       /\ lastRun.steps = {}

(***************************************************************************)
(* The specifications.                                                     *)
(***************************************************************************)
NormIdle   == loc_obj = PyOther("NoneType") /\ mainOut = NotRun /\ sumOut = NotRun
FeedIdle   == FeedInit
FilterIdle == df = EmptyFrame /\ mainPage = PageNotRun /\ sumPage = PageNotRun

NormNext ==
    \/ ApplyMain    /\ UNCHANGED feedVars /\ UNCHANGED filterVars
    \/ ApplySummary /\ UNCHANGED feedVars /\ UNCHANGED filterVars

FilterNext ==
    \/ RunMainScript    /\ UNCHANGED normVars /\ UNCHANGED feedVars
    \/ RunSummaryScript /\ UNCHANGED normVars /\ UNCHANGED feedVars

InitNorm   == NormInit /\ FeedIdle /\ FilterIdle
InitFeed   == FeedInit /\ NormIdle /\ FilterIdle
InitFilter == FilterInit /\ NormIdle /\ FeedIdle

SpecNorm   == InitNorm /\ [][NormNext]_vars
SpecFeed   == InitFeed /\ [][FeedNext]_vars
SpecFilter == InitFilter /\ [][FilterNext]_vars
=============================================================================
